---- MODULE Spec2Model ----
(***************************************************************************)
(* libilf::Parser<input_t, output_t> (src/parser.h): a bank of N           *)
(* per-thread input queues and N per-thread output queues, a round-robin   *)
(* submit index and receive index, N worker threads running one of three   *)
(* routines, and the start / stop lifecycle calls.                         *)
(*                                                                         *)
(* The threads of the model are the pusher (push), the popper (pop), the   *)
(* controller (constructor, start calls, stop calls) and the N workers.    *)
(* A worker step is the loop test together with the try_dequeue that       *)
(* follows it, or the conversion together with the enqueue.  The queues    *)
(* (readerwriterqueue.h) are bounded FIFOs as spec.md 4.1 describes them.  *)
(***************************************************************************)
EXTENDS Integers, Sequences, FiniteSets, TLC

\* ------------------------------------------------------------------ bounds
\* The constructor is tried with every num_threads in 0..MaxThreads.
MaxThreads == 2
\* The constructor is tried with every init_size in 1..MaxCap.
MaxCap == 2
\* At most MaxPush pushes succeed in a behaviour.
MaxPush == 3
\* At most MaxStarts start / start_wait / start_sleep calls in a behaviour.
MaxStarts == 2
\* At most MaxPushEdge pushes succeed in a behaviour of SpecEdge.
MaxPushEdge == 6
\* SpecCtor tries the constructor with every num_threads in
\* 0..MaxCtorThreads.
MaxCtorThreads == 17
\* At most MaxPushLoss pushes succeed in a behaviour of SpecLoss.
MaxPushLoss == 5

\* The k-th value the pusher gets accepted, k = 1, 2, ...: the pusher walks
\* through a sequence of distinct ints (as the loop of the int_to_string
\* test does) and offers a rejected value again.  The Parser never looks
\* into a value, so distinct values are the general case: they tell every
\* reordering, loss and duplication apart.
input_at(k) == 5 * k + 2

\* cur_input of a worker that holds no input (the local is not initialised
\* and is dead once its conversion has been enqueued)
NoInput == -1

\* a default-constructed output (std::string()): no digits
NoOutput == << >>

\* ------------------------------------------------------- unsigned integers
\* unsigned int is 32 bits wide; a word is kept as its two 16-bit halves
\* <<high, low>>.
HalfBits == 16
HalfMod == 2 ^ HalfBits

Word(n) == <<(n \div HalfMod) % HalfMod, n % HalfMod>>

\* the value of a word whose high half is below 2^15
Value(w) == w[1] * HalfMod + w[2]

RECURSIVE BitAndBits(_, _, _)
BitAndBits(a, b, bits) ==
    IF bits = 0 THEN 0
    ELSE (a % 2) * (b % 2) + 2 * BitAndBits(a \div 2, b \div 2, bits - 1)

\* a & b on unsigned int
BitAnd(a, b) == <<BitAndBits(a[1], b[1], HalfBits), BitAndBits(a[2], b[2], HalfBits)>>

\* a - 1 on unsigned int (0 - 1 wraps to 2^32 - 1)
UDec(a) ==
    IF a[2] > 0 THEN <<a[1], a[2] - 1>>
    ELSE IF a[1] > 0 THEN <<a[1] - 1, HalfMod - 1>>
    ELSE <<HalfMod - 1, HalfMod - 1>>

\* a + 1 on unsigned int (2^32 - 1 + 1 wraps to 0)
UInc(a) ==
    IF a[2] < HalfMod - 1 THEN <<a[1], a[2] + 1>>
    ELSE IF a[1] < HalfMod - 1 THEN <<a[1] + 1, 0>>
    ELSE <<0, 0>>

\* ------------------------------------------------------------ conversion
\* std::to_string(n) for n >= 0, as the sequence of its decimal digits.
RECURSIVE to_string(_)
to_string(n) == IF n < 10 THEN <<n>> ELSE Append(to_string(n \div 10), n % 10)

\* The conversion function handed to the constructor: int_to_string.
int_to_string(n) == to_string(n)

\* ------------------------------------------------------------------ state
VARIABLES
    phase,            \* "new", "ok" (constructed), "failed" (constructor threw),
                      \* "terminated" (std::terminate was called)
    num_threads,      \* _num_threads
    init_size,        \* the constructor's init_size
    input_queues,     \* _input_queues: lane -> sequence of inputs
    output_queues,    \* _output_queues: lane -> sequence of outputs
    cur_input_index,  \* _cur_input_index._val
    cur_output_index, \* _cur_output_index._val
    threads_active,   \* _threads_active
    threads,          \* _threads: lane -> [pc, cur_input]
    mode,             \* the routine the last start* call spawned
    ctl,              \* the controller thread: pc and j (where it is in the
                      \* join loop of stop), call ("start" or "stop": its
                      \* last call), status (of that call), after_stop (the
                      \* call before it was a stop that returned)
    push_ret,         \* what the last push returned ("none" before the first)
    pop_ret,          \* what the last pop returned
    pop_out,          \* the popper's output argument
    pushed,           \* history: the values of the successful pushes, in order
    popped,           \* history: the outputs of the successful pops, in order
    lost,             \* history: number of failed worker enqueues (warnings)
    nstarts,          \* history: number of start* calls
    pushed_at_start   \* history: Len(pushed) when the last start* was called

vars == <<phase, num_threads, init_size, input_queues, output_queues,
          cur_input_index, cur_output_index, threads_active, threads, mode,
          ctl, push_ret, pop_ret, pop_out, pushed, popped, lost, nstarts,
          pushed_at_start>>

parser_vars == <<num_threads, init_size, input_queues, output_queues,
                 cur_input_index, cur_output_index, threads_active, threads>>

Lanes == 0 .. (num_threads - 1)


\* --------------------------------------------- moodycamel::ReaderWriterQueue
\* A bounded FIFO of capacity init_size (spec.md 4.1).
capacity == init_size

\* enqueue(v) succeeds unless the queue is full
enqueue_ok(q) == Len(q) < capacity

enqueue(q, v) == IF enqueue_ok(q) THEN Append(q, v) ELSE q

\* try_dequeue(out) succeeds unless the queue is empty
try_dequeue_ok(q) == Len(q) > 0

try_dequeue(q) == IF try_dequeue_ok(q) THEN Tail(q) ELSE q

size_approx(q) == Len(q)

\* ------------------------------------------------------------ std::thread
\* A thread object is joinable from its spawn until it is joined.
joinable(t) == t.pc # "none"

\* A thread is running from its spawn until its routine returns.
running(t) == t.pc \notin {"none", "done"}

NoThread == [pc |-> "none", cur_input |-> NoInput]

RECURSIVE SumSizes(_, _)
SumSizes(qs, n) == IF n = 0 THEN 0 ELSE size_approx(qs[n - 1]) + SumSizes(qs, n - 1)

input_size == SumSizes(input_queues, num_threads)

output_size == SumSizes(output_queues, num_threads)

\* ------------------------------------------------------------------- Init
Init ==
    /\ phase = "new"
    /\ num_threads = 0
    /\ init_size = 0
    /\ input_queues = << >>
    /\ output_queues = << >>
    /\ cur_input_index = 0
    /\ cur_output_index = 0
    /\ threads_active = FALSE
    /\ threads = << >>
    /\ mode = "none"
    /\ ctl = [pc |-> "idle", j |-> 0, call |-> "none", status |-> "none",
              after_stop |-> FALSE]
    /\ push_ret = "none"
    /\ pop_ret = "none"
    /\ pop_out = NoOutput
    /\ pushed = << >>
    /\ popped = << >>
    /\ lost = 0
    /\ nstarts = 0
    /\ pushed_at_start = 0

\* ------------------------------------------------------------ constructor
\* mutant of bad_num_threads: the test for 0 is missing
bad_num_threads_no_zero(n) == BitAnd(Word(n), UDec(Word(n))) # Word(0)

\* num_threads == 0 || (num_threads & (num_threads - 1)) != 0
bad_num_threads(n) == n = 0 \/ BitAnd(Word(n), UDec(Word(n))) # Word(0)

\* mutant of Parser: the constructor starts the spinning workers itself,
\* as start does
Parser_starts_workers(n, size) ==
    /\ phase = "new"
    /\ num_threads' = n
    /\ init_size' = size
    /\ cur_input_index' = 0
    /\ cur_output_index' = 0
    /\ IF bad_num_threads(n)
       THEN /\ phase' = "failed"
            /\ threads_active' = FALSE
            /\ mode' = mode
            /\ UNCHANGED <<input_queues, output_queues, threads>>
       ELSE /\ phase' = "ok"
            /\ threads_active' = TRUE
            /\ mode' = "spin"
            /\ threads' = [i \in 0 .. (n - 1) |->
                              [pc |-> "loop", cur_input |-> NoInput]]
            /\ input_queues' = [i \in 0 .. (n - 1) |-> << >>]
            /\ output_queues' = [i \in 0 .. (n - 1) |-> << >>]
    /\ UNCHANGED <<ctl, push_ret, pop_ret, pop_out, pushed, popped,
                   lost, nstarts, pushed_at_start>>

Parser(n, size) ==
    /\ phase = "new"
    /\ num_threads' = n
    /\ init_size' = size
    /\ cur_input_index' = 0
    /\ cur_output_index' = 0
    /\ threads_active' = FALSE
    /\ IF bad_num_threads(n)
       THEN /\ phase' = "failed"
            /\ UNCHANGED <<input_queues, output_queues, threads>>
       ELSE /\ phase' = "ok"
            /\ threads' = [i \in 0 .. (n - 1) |-> NoThread]
            /\ input_queues' = [i \in 0 .. (n - 1) |-> << >>]
            /\ output_queues' = [i \in 0 .. (n - 1) |-> << >>]
    /\ UNCHANGED <<mode, ctl, push_ret, pop_ret, pop_out, pushed, popped,
                   lost, nstarts, pushed_at_start>>

\* ------------------------------------------------------------ push and pop
\* a bool returned to the caller
ret(success) == IF success THEN "true" ELSE "false"

\* mutant of next_index: the index is incremented without the mask
next_index_no_mask(idx) == idx + 1

\* (idx + 1) & (_num_threads - 1)
next_index(idx) == Value(BitAnd(UInc(Word(idx)), UDec(Word(num_threads))))

\* mutant of push: the input goes to the queue of lane 0 whatever the
\* submit index is
push_first_lane(input) ==
    /\ phase = "ok"
    /\ LET cur_input_queue == input_queues[0]
           success == enqueue_ok(cur_input_queue)
       IN /\ input_queues' = [input_queues EXCEPT
                                 ![0] = enqueue(cur_input_queue, input)]
          /\ cur_input_index' = IF success THEN next_index(cur_input_index)
                                ELSE cur_input_index
          /\ push_ret' = ret(success)
          /\ pushed' = IF success THEN Append(pushed, input) ELSE pushed
    /\ UNCHANGED <<phase, num_threads, init_size, output_queues,
                   cur_output_index, threads_active, threads, mode, ctl,
                   pop_ret, pop_out, popped, lost, nstarts, pushed_at_start>>

push(input) ==
    /\ phase = "ok"
    /\ LET cur_input_queue == input_queues[cur_input_index]
           success == enqueue_ok(cur_input_queue)
       IN /\ input_queues' = [input_queues EXCEPT
                                 ![cur_input_index] = enqueue(cur_input_queue, input)]
          /\ cur_input_index' = IF success THEN next_index(cur_input_index)
                                ELSE cur_input_index
          /\ push_ret' = ret(success)
          /\ pushed' = IF success THEN Append(pushed, input) ELSE pushed
    /\ UNCHANGED <<phase, num_threads, init_size, output_queues,
                   cur_output_index, threads_active, threads, mode, ctl,
                   pop_ret, pop_out, popped, lost, nstarts, pushed_at_start>>

\* mutant of pop: the receive index advances whether or not the dequeue
\* succeeded
pop_always_advance ==
    /\ phase = "ok"
    /\ LET cur_output_queue == output_queues[cur_output_index]
           success == try_dequeue_ok(cur_output_queue)
       IN /\ output_queues' = [output_queues EXCEPT
                                  ![cur_output_index] = try_dequeue(cur_output_queue)]
          /\ pop_out' = IF success THEN Head(cur_output_queue) ELSE pop_out
          /\ cur_output_index' = next_index(cur_output_index)
          /\ pop_ret' = ret(success)
          /\ popped' = IF success THEN Append(popped, Head(cur_output_queue))
                       ELSE popped
    /\ UNCHANGED <<phase, num_threads, init_size, input_queues,
                   cur_input_index, threads_active, threads, mode, ctl,
                   push_ret, pushed, lost, nstarts, pushed_at_start>>

\* mutant of pop: when the output queue at the receive index is empty,
\* pop goes on to a lane whose output queue is not
pop_skips_empty_lane ==
    /\ phase = "ok"
    /\ LET lane == IF output_queues[cur_output_index] = << >>
                      /\ \E i \in Lanes : output_queues[i] # << >>
                   THEN CHOOSE i \in Lanes : output_queues[i] # << >>
                   ELSE cur_output_index
           cur_output_queue == output_queues[lane]
           success == try_dequeue_ok(cur_output_queue)
       IN /\ output_queues' = [output_queues EXCEPT
                                  ![lane] = try_dequeue(cur_output_queue)]
          /\ pop_out' = IF success THEN Head(cur_output_queue) ELSE pop_out
          /\ cur_output_index' = IF success THEN next_index(lane)
                                 ELSE cur_output_index
          /\ pop_ret' = ret(success)
          /\ popped' = IF success THEN Append(popped, Head(cur_output_queue))
                       ELSE popped
    /\ UNCHANGED <<phase, num_threads, init_size, input_queues,
                   cur_input_index, threads_active, threads, mode, ctl,
                   push_ret, pushed, lost, nstarts, pushed_at_start>>

pop ==
    /\ phase = "ok"
    /\ LET cur_output_queue == output_queues[cur_output_index]
           success == try_dequeue_ok(cur_output_queue)
       IN /\ output_queues' = [output_queues EXCEPT
                                  ![cur_output_index] = try_dequeue(cur_output_queue)]
          /\ pop_out' = IF success THEN Head(cur_output_queue) ELSE pop_out
          /\ cur_output_index' = IF success THEN next_index(cur_output_index)
                                 ELSE cur_output_index
          /\ pop_ret' = ret(success)
          /\ popped' = IF success THEN Append(popped, Head(cur_output_queue))
                       ELSE popped
    /\ UNCHANGED <<phase, num_threads, init_size, input_queues,
                   cur_input_index, threads_active, threads, mode, ctl,
                   push_ret, pushed, lost, nstarts, pushed_at_start>>

\* ------------------------------------------------------ start, start_wait,
\* ------------------------------------------------------ start_sleep
\* _threads[i] = std::thread(routine, this, i) for every i.  Move-assigning
\* to a std::thread that is still joinable calls std::terminate.
spawn(first_pc) ==
    IF \E i \in Lanes : joinable(threads[i])
    THEN /\ phase' = "terminated"
         /\ UNCHANGED threads
    ELSE /\ phase' = phase
         /\ threads' = [i \in Lanes |-> [pc |-> first_pc, cur_input |-> NoInput]]

\* The std::thread temporaries of a start call that are running without
\* being held by _threads[i]: "_threads[i] = std::thread(routine, this, i)"
\* constructs the temporary, whose routine starts on lane i, before the
\* move assignment finds _threads[i] joinable and calls std::terminate.
\* The loop of start begins at lane 0, and either every _threads[i] is
\* joinable or none is, so the one temporary is that of lane 0.
temporaries(i) == IF phase = "terminated" /\ i = 0 THEN 1 ELSE 0

\* the number of threads that run a worker routine on lane i
live_workers(i) == (IF running(threads[i]) THEN 1 ELSE 0) + temporaries(i)

\* the controller's record once a start call has returned
called(name) ==
    [pc |-> "idle", j |-> 0, call |-> name, status |-> "returned",
     after_stop |-> FALSE]

start ==
    /\ phase = "ok"
    /\ ctl.pc = "idle"
    /\ threads_active' = TRUE
    /\ spawn("loop")
    /\ mode' = "spin"
    /\ ctl' = called("start")
    /\ nstarts' = nstarts + 1
    /\ pushed_at_start' = Len(pushed)
    /\ UNCHANGED <<num_threads, init_size, input_queues, output_queues,
                   cur_input_index, cur_output_index, push_ret, pop_ret,
                   pop_out, pushed, popped, lost>>

\* mutant of start_wait: it sets _threads_active as start does
start_wait_sets_flag ==
    /\ phase = "ok"
    /\ ctl.pc = "idle"
    /\ threads_active' = TRUE
    /\ spawn("loop")
    /\ mode' = "wait"
    /\ ctl' = called("start")
    /\ nstarts' = nstarts + 1
    /\ pushed_at_start' = Len(pushed)
    /\ UNCHANGED <<num_threads, init_size, input_queues, output_queues,
                   cur_input_index, cur_output_index, push_ret, pop_ret,
                   pop_out, pushed, popped, lost>>

start_wait ==
    /\ phase = "ok"
    /\ ctl.pc = "idle"
    /\ spawn("loop")
    /\ mode' = "wait"
    /\ ctl' = called("start")
    /\ nstarts' = nstarts + 1
    /\ pushed_at_start' = Len(pushed)
    /\ UNCHANGED <<num_threads, init_size, input_queues, output_queues,
                   cur_input_index, cur_output_index, threads_active,
                   push_ret, pop_ret, pop_out, pushed, popped, lost>>

start_sleep ==
    /\ phase = "ok"
    /\ ctl.pc = "idle"
    /\ threads_active' = TRUE
    /\ spawn("loop")
    /\ mode' = "sleep"
    /\ ctl' = called("start")
    /\ nstarts' = nstarts + 1
    /\ pushed_at_start' = Len(pushed)
    /\ UNCHANGED <<num_threads, init_size, input_queues, output_queues,
                   cur_input_index, cur_output_index, push_ret, pop_ret,
                   pop_out, pushed, popped, lost>>

\* ------------------------------------------------- stop, stop_wait, stop_sleep
\* _threads_active = false; the join loop follows in stop_join.
stop_call(name) ==
    /\ phase = "ok"
    /\ ctl.pc = "idle"
    /\ threads_active' = FALSE
    /\ ctl' = [pc |-> "join", j |-> 0, call |-> name, status |-> "running",
               after_stop |-> (ctl.call = "stop" /\ ctl.status = "returned")]
    /\ UNCHANGED <<phase, num_threads, init_size, input_queues, output_queues,
                   cur_input_index, cur_output_index, threads, mode,
                   push_ret, pop_ret, pop_out, pushed, popped, lost, nstarts,
                   pushed_at_start>>

stop == stop_call("stop")

\* stop_wait() { stop(); }
stop_wait == stop_call("stop")

\* stop_sleep() { stop(); }
stop_sleep == stop_call("stop")

\* mutant of join_count: the loop of stop ends one thread early
join_count_short == num_threads - 1

\* the number of threads the loop of stop joins
join_count == num_threads

\* _threads[j].join(): throws std::system_error when the thread is not
\* joinable, and otherwise blocks until the routine has returned.
stop_join ==
    /\ phase = "ok"
    /\ ctl.pc = "join"
    /\ IF ctl.j >= join_count
       THEN /\ ctl' = [ctl EXCEPT !.pc = "idle", !.j = 0, !.status = "returned"]
            /\ UNCHANGED threads
       ELSE IF ~joinable(threads[ctl.j])
       THEN /\ ctl' = [ctl EXCEPT !.pc = "idle", !.j = 0, !.status = "threw"]
            /\ UNCHANGED threads
       ELSE /\ threads[ctl.j].pc = "done"
            /\ threads' = [threads EXCEPT ![ctl.j] = NoThread]
            /\ ctl' = IF ctl.j + 1 >= join_count
                      THEN [ctl EXCEPT !.pc = "idle", !.j = 0, !.status = "returned"]
                      ELSE [ctl EXCEPT !.j = ctl.j + 1]
    /\ UNCHANGED <<phase, num_threads, init_size, input_queues, output_queues,
                   cur_input_index, cur_output_index, threads_active, mode,
                   push_ret, pop_ret, pop_out, pushed, popped, lost, nstarts,
                   pushed_at_start>>

\* ---------------------------------------------------------------- workers
\* A worker is at "loop" (the top of its while loop), at "enq" (it holds a
\* dequeued input that it has not yet converted and enqueued), at "sleep"
\* (in nanosleep) or at "done" (its routine has returned).
\*
\* What a worker can read from _threads_active, a plain bool written by
\* stop without synchronisation: the value stored, or the value true that
\* start stored before the thread was spawned.  Reading true while stop has
\* already stored false is also what the interleaving "loop test, then the
\* store of stop, then try_dequeue" gives, so the loop test and the
\* try_dequeue after it are one step.
read_threads_active == {threads_active, TRUE}

worker_unchanged ==
    UNCHANGED <<phase, num_threads, init_size, cur_input_index,
                cur_output_index, threads_active, mode, ctl, push_ret,
                pop_ret, pop_out, pushed, popped, nstarts, pushed_at_start>>

\* the routine returns
exit(index) ==
    /\ threads' = [threads EXCEPT ![index] = [pc |-> "done", cur_input |-> NoInput]]
    /\ UNCHANGED <<input_queues, output_queues, lost>>
    /\ worker_unchanged

\* mutant of take: the "if (!success) continue / return" is missing, so
\* the worker converts and enqueues after a failed try_dequeue too
take_no_continue(index, on_empty) ==
    /\ LET my_input_queue == input_queues[index]
           success == try_dequeue_ok(my_input_queue)
       IN /\ input_queues' = [input_queues EXCEPT
                                 ![index] = try_dequeue(my_input_queue)]
          /\ threads' = [threads EXCEPT ![index] =
                [pc |-> "enq",
                 cur_input |-> IF success THEN Head(my_input_queue) ELSE 0]]
    /\ UNCHANGED <<output_queues, lost>>
    /\ worker_unchanged

\* success = my_input_queue.try_dequeue(cur_input); if (!success) the
\* thread goes to on_empty.
take(index, on_empty) ==
    /\ LET my_input_queue == input_queues[index]
           success == try_dequeue_ok(my_input_queue)
       IN /\ input_queues' = [input_queues EXCEPT
                                 ![index] = try_dequeue(my_input_queue)]
          /\ threads' = [threads EXCEPT ![index] =
                IF success
                THEN [pc |-> "enq", cur_input |-> Head(my_input_queue)]
                ELSE [pc |-> on_empty, cur_input |-> NoInput]]
    /\ UNCHANGED <<output_queues, lost>>
    /\ worker_unchanged

\* mutant of convert: after a failed enqueue the worker puts the input
\* back at the head of its input queue, to try again
convert_retry(index, next_pc) ==
    /\ threads[index].pc = "enq"
    /\ LET my_output_queue == output_queues[index]
           cur_output == int_to_string(threads[index].cur_input)
           success == enqueue_ok(my_output_queue)
       IN /\ output_queues' = [output_queues EXCEPT
                                  ![index] = enqueue(my_output_queue, cur_output)]
          /\ input_queues' = IF success THEN input_queues
                             ELSE [input_queues EXCEPT
                                      ![index] = <<threads[index].cur_input>>
                                                    \o input_queues[index]]
    /\ threads' = [threads EXCEPT ![index] = [pc |-> next_pc, cur_input |-> NoInput]]
    /\ UNCHANGED lost
    /\ worker_unchanged

\* _conversion_function(cur_input, cur_output);
\* success = my_output_queue.enqueue(cur_output); a failure is only logged.
\* The thread goes on at next_pc.
convert(index, next_pc) ==
    /\ threads[index].pc = "enq"
    /\ LET my_output_queue == output_queues[index]
           cur_output == int_to_string(threads[index].cur_input)
           success == enqueue_ok(my_output_queue)
       IN /\ output_queues' = [output_queues EXCEPT
                                  ![index] = enqueue(my_output_queue, cur_output)]
          /\ lost' = IF success THEN lost ELSE lost + 1
    /\ threads' = [threads EXCEPT ![index] = [pc |-> next_pc, cur_input |-> NoInput]]
    /\ UNCHANGED input_queues
    /\ worker_unchanged

\* mutant of thread_routine: _threads_active is tested again between the
\* try_dequeue and the enqueue, and the routine returns with the input it
\* holds
thread_routine_test_late(index) ==
    /\ phase = "ok"
    /\ mode = "spin"
    /\ \/ /\ threads[index].pc = "loop"
          /\ \E a \in read_threads_active :
                IF a THEN take(index, "loop") ELSE exit(index)
       \/ /\ threads[index].pc = "enq"
          /\ \E a \in read_threads_active :
                IF a THEN convert(index, "loop") ELSE exit(index)

thread_routine(index) ==
    /\ phase = "ok"
    /\ mode = "spin"
    /\ \/ /\ threads[index].pc = "loop"
          /\ \E a \in read_threads_active :
                IF a THEN take(index, "loop") ELSE exit(index)
       \/ convert(index, "loop")

\* mutant of thread_routine_wait: "if" for "while", the routine returns
\* after its first item
thread_routine_wait_once(index) ==
    /\ phase = "ok"
    /\ mode = "wait"
    /\ \/ /\ threads[index].pc = "loop"
          /\ take(index, "done")
       \/ convert(index, "done")

thread_routine_wait(index) ==
    /\ phase = "ok"
    /\ mode = "wait"
    /\ \/ /\ threads[index].pc = "loop"
          /\ take(index, "done")
       \/ convert(index, "loop")

\* nanosleep(req, nullptr) returns; continue
wake(index) ==
    /\ threads[index].pc = "sleep"
    /\ threads' = [threads EXCEPT ![index].pc = "loop"]
    /\ UNCHANGED <<input_queues, output_queues, lost>>
    /\ worker_unchanged

\* mutant of thread_routine_sleep: the routine returns at a failed
\* try_dequeue instead of going to sleep
thread_routine_sleep_returns(index) ==
    /\ phase = "ok"
    /\ mode = "sleep"
    /\ \/ /\ threads[index].pc = "loop"
          /\ \E a \in read_threads_active :
                IF a THEN take(index, "done") ELSE exit(index)
       \/ wake(index)
       \/ convert(index, "loop")

thread_routine_sleep(index) ==
    /\ phase = "ok"
    /\ mode = "sleep"
    /\ \/ /\ threads[index].pc = "loop"
          /\ \E a \in read_threads_active :
                IF a THEN take(index, "sleep") ELSE exit(index)
       \/ wake(index)
       \/ convert(index, "loop")

Next ==
    \/ \E n \in 0 .. MaxThreads, size \in 1 .. MaxCap : Parser(n, size)
    \/ Len(pushed) < MaxPush /\ push(input_at(Len(pushed) + 1))
    \/ pop
    \/ nstarts < MaxStarts /\ start
    \/ nstarts < MaxStarts /\ start_wait
    \/ nstarts < MaxStarts /\ start_sleep
    \/ stop
    \/ stop_wait
    \/ stop_sleep
    \/ stop_join
    \/ \E i \in Lanes : thread_routine(i)
    \/ \E i \in Lanes : thread_routine_wait(i)
    \/ \E i \in Lanes : thread_routine_sleep(i)

Spec == Init /\ [][Next]_vars

\* The constructor over a wider range of num_threads, followed by pushes
\* and pops on the Parser it leaves (no worker is started).
NextCtor ==
    \/ \E n \in 0 .. MaxCtorThreads, size \in 1 .. MaxCap : Parser(n, size)
    \/ Len(pushed) < MaxPush /\ push(input_at(Len(pushed) + 1))
    \/ pop

SpecCtor == Init /\ [][NextCtor]_vars

\* The capacity-edge scenario (spec.md 8, scenario 6): a Parser constructed
\* with num_threads = 2 and init_size = 2; pushes until a push is rejected;
\* then start_wait; then pushes and pops while the drain-mode workers run.
InitEdge ==
    /\ phase = "ok"
    /\ num_threads = 2
    /\ init_size = 2
    /\ input_queues = [i \in 0 .. 1 |-> << >>]
    /\ output_queues = [i \in 0 .. 1 |-> << >>]
    /\ cur_input_index = 0
    /\ cur_output_index = 0
    /\ threads_active = FALSE
    /\ threads = [i \in 0 .. 1 |-> NoThread]
    /\ mode = "none"
    /\ ctl = [pc |-> "idle", j |-> 0, call |-> "none", status |-> "none",
              after_stop |-> FALSE]
    /\ push_ret = "none"
    /\ pop_ret = "none"
    /\ pop_out = NoOutput
    /\ pushed = << >>
    /\ popped = << >>
    /\ lost = 0
    /\ nstarts = 0
    /\ pushed_at_start = 0

NextEdge ==
    \/ nstarts = 0 /\ push_ret # "false" /\ push(input_at(Len(pushed) + 1))
    \/ nstarts = 0 /\ push_ret = "false" /\ start_wait
    \/ nstarts = 1 /\ Len(pushed) < MaxPushEdge /\ push(input_at(Len(pushed) + 1))
    \/ nstarts = 1 /\ pop
    \/ \E i \in Lanes : thread_routine_wait(i)

\* The caller goes through with the scenario (it fills the queues and
\* calls start_wait), every worker that has been started keeps being
\* scheduled, and the popper keeps calling pop; after start_wait the
\* pusher may stop pushing at any time.
FairEdge ==
    /\ WF_vars(nstarts = 0 /\ push_ret # "false" /\ push(input_at(Len(pushed) + 1)))
    /\ WF_vars(nstarts = 0 /\ push_ret = "false" /\ start_wait)
    /\ WF_vars(nstarts = 1 /\ pop)
    /\ \A i \in 0 .. 1 : WF_vars(thread_routine_wait(i))

SpecEdge == InitEdge /\ [][NextEdge]_vars /\ FairEdge

\* A start or start_sleep followed by a stop or stop_sleep, with pushes
\* and pops at any time: the caller's join loop and every worker that has
\* been started keep being scheduled.
NextStop ==
    \/ \E n \in 0 .. MaxThreads, size \in 1 .. MaxCap : Parser(n, size)
    \/ Len(pushed) < MaxPush /\ push(input_at(Len(pushed) + 1))
    \/ pop
    \/ nstarts = 0 /\ start
    \/ nstarts = 0 /\ start_sleep
    \/ ctl.call = "start" /\ stop
    \/ ctl.call = "start" /\ stop_sleep
    \/ stop_join
    \/ \E i \in Lanes : thread_routine(i)
    \/ \E i \in Lanes : thread_routine_sleep(i)

FairStop ==
    /\ WF_vars(stop_join)
    /\ \A i \in 0 .. (MaxThreads - 1) :
          /\ WF_vars(i \in Lanes /\ thread_routine(i))
          /\ WF_vars(i \in Lanes /\ thread_routine_sleep(i))

SpecStop == Init /\ [][NextStop]_vars /\ FairStop

\* Workers started once, in any of the three modes, and never stopped,
\* with enough pushes for an output to be lost and for the pops to go
\* past it.
NextLoss ==
    \/ \E n \in 0 .. MaxThreads, size \in 1 .. MaxCap : Parser(n, size)
    \/ Len(pushed) < MaxPushLoss /\ push(input_at(Len(pushed) + 1))
    \/ pop
    \/ nstarts = 0 /\ start
    \/ nstarts = 0 /\ start_wait
    \/ nstarts = 0 /\ start_sleep
    \/ \E i \in Lanes : thread_routine(i)
    \/ \E i \in Lanes : thread_routine_wait(i)
    \/ \E i \in Lanes : thread_routine_sleep(i)

SpecLoss == Init /\ [][NextLoss]_vars

\* Workers started once by start or start_sleep and never stopped, so
\* that the active flag stays true: the popper keeps calling pop and
\* every worker keeps being scheduled; the pusher may stop at any time.
NextRun ==
    \/ \E n \in 0 .. MaxThreads, size \in 1 .. MaxCap : Parser(n, size)
    \/ Len(pushed) < MaxPush /\ push(input_at(Len(pushed) + 1))
    \/ pop
    \/ nstarts = 0 /\ start
    \/ nstarts = 0 /\ start_sleep
    \/ \E i \in Lanes : thread_routine(i)
    \/ \E i \in Lanes : thread_routine_sleep(i)

FairRun ==
    /\ WF_vars(pop)
    /\ \A i \in 0 .. (MaxThreads - 1) :
          /\ WF_vars(i \in Lanes /\ thread_routine(i))
          /\ WF_vars(i \in Lanes /\ thread_routine_sleep(i))

SpecRun == Init /\ [][NextRun]_vars /\ FairRun

\* ====================================================================
\* Properties
\* ====================================================================

\* the constructor has returned a Parser (the queues and threads exist)
constructed == phase \in {"ok", "terminated"}

\* the number of workers that hold a dequeued input not yet enqueued
in_flight == Cardinality({i \in Lanes : threads[i].pc = "enq"})

\* the controller's last call was a stop, stop_wait or stop_sleep that
\* has returned (and no start call followed it)
stop_returned ==
    ctl.pc = "idle" /\ ctl.call = "stop" /\ ctl.status = "returned"

\* -------------------------------------------------------------------- C1
\* C1: the k-th successful pop returns f(v_k), where v_k is the argument
\* of the k-th successful push, in every reachable state: the outputs
\* popped so far are the conversions of the first inputs pushed, in order.
C1_PopOrder ==
    /\ Len(popped) <= Len(pushed)
    /\ \A k \in 1 .. Len(popped) : popped[k] = int_to_string(pushed[k])

\* -------------------------------------------------------------------- C2
IsPowerOfTwo(n) == \E k \in 0 .. n : 2 ^ k = n

\* C2: the constructor called with num_threads = 0 or with a num_threads
\* that is no power of two fails (std::invalid_argument) and leaves no
\* queue and no thread; called with a power of two it succeeds and leaves
\* both indices 0, the active flag false, num_threads empty input queues,
\* num_threads empty output queues and no thread running.
C2_Constructor ==
    [][(phase = "new" /\ phase' # "new")
       => IF IsPowerOfTwo(num_threads')
          THEN /\ phase' = "ok"
               /\ cur_input_index' = 0
               /\ cur_output_index' = 0
               /\ threads_active' = FALSE
               /\ DOMAIN input_queues' = 0 .. (num_threads' - 1)
               /\ DOMAIN output_queues' = 0 .. (num_threads' - 1)
               /\ DOMAIN threads' = 0 .. (num_threads' - 1)
               /\ \A i \in 0 .. (num_threads' - 1) :
                     /\ input_queues'[i] = << >>
                     /\ output_queues'[i] = << >>
                     /\ ~joinable(threads'[i])
          ELSE /\ phase' = "failed"
               /\ input_queues' = << >>
               /\ output_queues' = << >>
               /\ threads' = << >>]_vars

\* the constructor has rejected a num_threads that is neither 0 nor a
\* power of two
C2_Witness ==
    /\ phase = "failed"
    /\ num_threads = 6
    /\ input_queues = << >>
    /\ threads = << >>

\* -------------------------------------------------------------------- C3
\* C3: once a stop, stop_wait or stop_sleep call has returned, no worker
\* thread is running and the active flag is false (until the next start
\* call).
C3_StopJoinsAll ==
    stop_returned =>
        /\ \A i \in Lanes : ~running(threads[i])
        /\ threads_active = FALSE

\* a stop has returned in spin mode and has left inputs unprocessed
C3_Witness ==
    /\ stop_returned
    /\ mode = "spin"
    /\ num_threads = 2
    /\ input_size > 0
    /\ \A i \in Lanes : threads[i].pc = "none"

\* -------------------------------------------------------------------- C4
\* C4: in every reachable state, items in the input queues + items in the
\* output queues + items held by a worker between its dequeue and its
\* enqueue + outputs lost to a failed worker enqueue = successful pushes
\* - successful pops.
C4_Conservation ==
    constructed =>
        input_size + output_size + in_flight + lost = Len(pushed) - Len(popped)

\* an output has been lost, another has been popped and a worker holds
\* an input in flight
C4_Witness ==
    /\ in_flight > 0
    /\ lost > 0
    /\ Len(popped) > 0

\* -------------------------------------------------------------------- C5
\* C5: once stop has returned, no worker holds an item in flight, and
\* input_size + output_size + (successful pops) = (successful pushes),
\* provided that no worker enqueue has failed.
C5_StopKeepsItems ==
    (stop_returned /\ lost = 0) =>
        /\ in_flight = 0
        /\ input_size + output_size + Len(popped) = Len(pushed)

\* stop has returned before the spinning workers had moved everything
C5_Witness ==
    /\ stop_returned
    /\ lost = 0
    /\ mode = "spin"
    /\ input_size > 0
    /\ output_size > 0
    /\ Len(pushed) = MaxPush

\* -------------------------------------------------------------------- C6
\* C6: a stop call made right after a stop call that has returned raises
\* no error and changes neither the active flag, the indices, the queues
\* nor the threads.
C6_SecondStopNoOp ==
    [][(ctl.call = "stop" /\ ctl.status = "returned" /\ ctl'.call = "stop"
            /\ ctl' # ctl)
         \/ (ctl.pc = "join" /\ ctl.after_stop /\ ctl' # ctl)
       => /\ ctl'.status # "threw"
          /\ UNCHANGED <<threads_active, cur_input_index, cur_output_index,
                         input_queues, output_queues, threads>>]_vars

\* -------------------------------------------------------------------- C7
\* C7: a pop made while every output queue is empty returns false and
\* leaves its output argument, the receive index and every queue as they
\* were.
C7_PopEmpty ==
    [][(pop /\ output_size = 0)
       => /\ pop_ret' = "false"
          /\ UNCHANGED <<pop_out, cur_output_index, input_queues,
                         output_queues>>]_vars

\* a pop has failed on a Parser with empty output queues, after an
\* earlier pop had filled the output argument
C7_Witness ==
    /\ pop_ret = "false"
    /\ output_size = 0
    /\ pop_out # NoOutput
    /\ num_threads = 2
    /\ input_size > 0

\* -------------------------------------------------------------------- C8
\* C8: push is always possible on a constructed Parser (it does not
\* block), it returns false exactly when the input queue at the submit
\* index already holds its capacity of items, and the size of every
\* queue is between 0 and its capacity in every reachable state.
C8_SizesInRange ==
    constructed =>
        \A i \in Lanes :
            /\ size_approx(input_queues[i]) \in 0 .. capacity
            /\ size_approx(output_queues[i]) \in 0 .. capacity

C10_DrainAll ==
    (stop_returned /\ nstarts = 1 /\ mode = "wait"
        /\ Len(pushed) = pushed_at_start)
    => /\ input_size = 0
       /\ lost = 0
       /\ Len(popped) + output_size = Len(pushed)
       /\ Len(popped) < Len(pushed)
             => try_dequeue_ok(output_queues[cur_output_index])
       /\ Len(popped) = Len(pushed)
             => /\ output_size = 0
                /\ ~try_dequeue_ok(output_queues[cur_output_index])

\* all pushes drained by start_wait / stop_wait and then popped
C10_Witness ==
    /\ stop_returned
    /\ nstarts = 1
    /\ mode = "wait"
    /\ num_threads = 2
    /\ pushed_at_start = MaxPush
    /\ Len(pushed) = pushed_at_start
    /\ Len(popped) = Len(pushed)
    /\ input_size = 0
    /\ output_size = 0
    /\ pop_ret = "false"

\* a step of the worker of lane i, whatever its routine
worker_step(i) ==
    thread_routine(i) \/ thread_routine_wait(i) \/ thread_routine_sleep(i)

\* a step of the pusher
push_step == \E k \in 1 .. (Len(pushed) + 1) : push(input_at(k))

\* ------------------------------------------------------------------- C11
\* C11: each cursor has a single writer: only the pusher appends to an
\* input queue and writes the submit index, only the worker of lane i
\* takes from input queue i and appends to output queue i, only the
\* popper takes from an output queue and writes the receive index, and
\* no lane ever has two threads running a worker routine on its queues.
C11_SingleWriter ==
    /\ [](constructed => \A i \in Lanes : live_workers(i) <= 1)
    /\ [][(phase = "ok" /\ phase' = "ok")
          => /\ cur_input_index' # cur_input_index => push_step
             /\ cur_output_index' # cur_output_index => pop
             /\ \A i \in Lanes :
                   /\ input_queues'[i] # input_queues[i]
                         => \/ /\ push_step
                               /\ i = cur_input_index
                               /\ Len(input_queues'[i]) = Len(input_queues[i]) + 1
                               /\ SubSeq(input_queues'[i], 1, Len(input_queues[i]))
                                     = input_queues[i]
                            \/ /\ worker_step(i)
                               /\ input_queues'[i] = Tail(input_queues[i])
                   /\ output_queues'[i] # output_queues[i]
                         => \/ /\ worker_step(i)
                               /\ Len(output_queues'[i]) = Len(output_queues[i]) + 1
                               /\ SubSeq(output_queues'[i], 1, Len(output_queues[i]))
                                     = output_queues[i]
                            \/ /\ pop
                               /\ i = cur_output_index
                               /\ output_queues'[i] = Tail(output_queues[i])]_vars

\* ------------------------------------------------------------------- C12
\* C12: in every reachable state of a constructed Parser the submit index
\* is (the number of successful pushes) mod num_threads and the receive
\* index is (the number of successful pops) mod num_threads, both in
\* 0 .. num_threads - 1 (so both are 0 after construction); the k-th
\* successful push appends its input to the input queue of lane
\* (k - 1) mod num_threads and to no other, and the k-th successful pop
\* takes the head of the output queue of lane (k - 1) mod num_threads and
\* of no other.
C12_IndexIsCountModN ==
    /\ [](constructed =>
            /\ cur_input_index \in Lanes
            /\ cur_output_index \in Lanes
            /\ cur_input_index = Len(pushed) % num_threads
            /\ cur_output_index = Len(popped) % num_threads)
    /\ [][(phase = "ok" /\ Len(pushed') = Len(pushed) + 1)
          => LET lane == Len(pushed) % num_threads
             IN input_queues' =
                   [input_queues EXCEPT
                       ![lane] = Append(input_queues[lane],
                                        pushed'[Len(pushed')])]]_vars
    /\ [][(phase = "ok" /\ Len(popped') = Len(popped) + 1)
          => LET lane == Len(popped) % num_threads
             IN /\ output_queues[lane] # << >>
                /\ popped'[Len(popped')] = Head(output_queues[lane])
                /\ pop_out' = Head(output_queues[lane])
                /\ output_queues' =
                      [output_queues EXCEPT
                          ![lane] = Tail(output_queues[lane])]]_vars

\* both indices have wrapped around on a Parser of two lanes: three
\* pushes and two pops have succeeded
C12_Witness ==
    /\ phase = "ok"
    /\ num_threads = 2
    /\ Len(pushed) = 3
    /\ cur_input_index = 1
    /\ Len(popped) = 2
    /\ cur_output_index = 0

\* ------------------------------------------------------------------- C13
\* C13: a push that returns false leaves the submit index and every
\* queue as they were, a pop that returns false leaves the receive index
\* and every queue as they were, no push changes the receive index or an
\* output queue, and no pop changes the submit index or an input queue.
C13_Frame ==
    /\ [][push_step
          => /\ UNCHANGED <<cur_output_index, output_queues>>
             /\ push_ret' = "false"
                   => UNCHANGED <<cur_input_index, input_queues>>]_vars
    /\ [][pop
          => /\ UNCHANGED <<cur_input_index, input_queues>>
             /\ pop_ret' = "false"
                   => UNCHANGED <<cur_output_index, output_queues>>]_vars

\* a push and a pop have both failed on a Parser of two lanes that holds
\* inputs and outputs
C13_Witness ==
    /\ phase = "ok"
    /\ num_threads = 2
    /\ push_ret = "false"
    /\ pop_ret = "false"
    /\ input_size > 0
    /\ output_size > 0

\* ------------------------------------------------------------------- C14
\* C14: a worker started by start_wait returns at a failed dequeue from
\* its input queue and at no other place, whatever the active flag
\* holds: a step of the worker returns if and only if it is at the top
\* of its loop and its input queue is empty; when it returns it holds no
\* input; and once it has returned nothing is taken from its input queue
\* and nothing is added to its output queue, whatever is pushed to its
\* lane.
C14_DrainExit ==
    [][(phase = "ok" /\ phase' = "ok" /\ mode = "wait" /\ mode' = "wait")
       => \A i \in Lanes :
             /\ (threads[i].pc # "done" /\ threads'[i].pc = "done")
                   => /\ thread_routine_wait(i)
                      /\ threads[i].pc = "loop"
                      /\ threads[i].cur_input = NoInput
                      /\ input_queues[i] = << >>
                      /\ UNCHANGED <<input_queues, output_queues, lost>>
             /\ thread_routine_wait(i)
                   => (threads'[i].pc = "done"
                         <=> (threads[i].pc = "loop" /\ input_queues[i] = << >>))
             /\ (~running(threads[i]) /\ ~running(threads'[i]))
                   => /\ Len(input_queues'[i]) >= Len(input_queues[i])
                      /\ Len(output_queues'[i]) <= Len(output_queues[i])
                      /\ threads'[i].cur_input = NoInput]_vars

\* a drain-mode worker has returned while the other still holds an
\* input, the active flag is false, and an input pushed to the lane of
\* the worker that returned waits in its input queue
C14_Witness ==
    /\ phase = "ok"
    /\ mode = "wait"
    /\ num_threads = 2
    /\ threads_active = FALSE
    /\ threads[0].pc = "done"
    /\ threads[1].pc = "enq"
    /\ input_queues[0] # << >>
    /\ Len(pushed) > pushed_at_start

\* ------------------------------------------------------------------- C15
\* C15: a worker started by start or start_sleep returns only while the
\* active flag is false, and once stop or stop_sleep has been called,
\* with the join loop and every worker scheduled fairly, the call
\* returns with every worker joined, whatever the input queues hold.
C15_StopTerminates ==
    /\ [][\A i \in Lanes :
            (phase = "ok" /\ mode \in {"spin", "sleep"}
                /\ threads[i].pc # "done" /\ threads'[i].pc = "done")
            => ~threads_active]_vars
    /\ (ctl.pc = "join")
          ~> (stop_returned /\ \A i \in Lanes : ~joinable(threads[i]))

\* ------------------------------------------------------------------- C16
\* C16: the active flag is false when the constructor returns; a step
\* that makes it true is a start or a start_sleep call; a step that makes
\* it false is a stop, stop_wait or stop_sleep call; start_wait leaves it
\* as it is; and it is false whenever a stop call has returned after a
\* start_wait.
C16_ActiveFlag ==
    /\ [][/\ (phase = "new" /\ phase' = "ok") => ~threads_active'
          /\ (~threads_active /\ threads_active') => (start \/ start_sleep)
          /\ (threads_active /\ ~threads_active')
                => (stop \/ stop_wait \/ stop_sleep)
          /\ start_wait => UNCHANGED threads_active]_vars
    /\ []((stop_returned /\ mode = "wait") => ~threads_active)

\* a start ... stop cycle and then a start_wait ... stop_wait cycle have
\* been completed
C16_Witness ==
    /\ stop_returned
    /\ mode = "wait"
    /\ nstarts = 2
    /\ ~threads_active
    /\ \A i \in Lanes : ~joinable(threads[i])

\* ------------------------------------------------------------------- C17
\* C17: a start, start_wait or start_sleep call made while a thread of an
\* earlier start call has not been joined is rejected: the call comes
\* back to its caller, the process goes on, the threads of the earlier
\* call are left as they were, and no lane ever has two threads running
\* a worker routine on its queues.
C17_NoStartWhileRunning ==
    /\ [][(phase = "ok" /\ (start \/ start_wait \/ start_sleep)
              /\ \E i \in Lanes : joinable(threads[i]))
          => /\ phase' = "ok"
             /\ ctl'.pc = "idle"
             /\ UNCHANGED <<threads, input_queues, output_queues>>]_vars
    /\ [](constructed => \A i \in Lanes : live_workers(i) <= 1)

\* ------------------------------------------------------------------- C18
\* the input v is somewhere in the Parser or its output has been popped
\* (the inputs pushed are distinct, so a value names one push)
held(v) ==
    \/ \E i \in Lanes, j \in 1 .. MaxPushLoss + 1 :
          j <= Len(input_queues[i]) /\ input_queues[i][j] = v
    \/ \E i \in Lanes : threads[i].cur_input = v
    \/ \E i \in Lanes, j \in 1 .. MaxPushLoss + 1 :
          j <= Len(output_queues[i]) /\ output_queues[i][j] = int_to_string(v)
    \/ \E j \in 1 .. Len(popped) : popped[j] = int_to_string(v)

\* the places, in the order of the pushes, of the inputs whose output was
\* dropped
lost_positions == {k \in 1 .. Len(pushed) : ~held(pushed[k])}

\* the output is dropped at a failed enqueue: the output queue is left as
\* it was, the worker gives the input up and goes back to the top of its
\* loop, and the outputs dropped are exactly those of the inputs that are
\* nowhere any more; no output is popped twice
C18_Dropped ==
    /\ [][\A i \in Lanes :
            (phase = "ok" /\ worker_step(i) /\ threads[i].pc = "enq"
                /\ ~enqueue_ok(output_queues[i]))
            => /\ UNCHANGED <<input_queues, output_queues>>
               /\ lost' = lost + 1
               /\ threads'[i] = [pc |-> "loop", cur_input |-> NoInput]]_vars
    /\ [](constructed =>
            /\ Cardinality(lost_positions) = lost
            /\ \A k, m \in 1 .. Len(popped) : popped[k] = popped[m] => k = m)

\* C18 as claimed: a failed enqueue of a worker drops the output, and
\* from then on, for every k behind the place of the lost input, the k-th
\* successful pop does not return f(v_k).
C18_AllBehindDisplaced ==
    /\ C18_Dropped
    /\ [](constructed =>
            \A m \in lost_positions, k \in 1 .. Len(popped) :
                k > m => popped[k] # int_to_string(pushed[k]))

\* C18 as amended: a failed enqueue of a worker drops the output, and
\* from then on the k-th successful pop does not return f(v_k) for k the
\* place of a lost input or a later place of the same lane, and returns
\* the output of a later input of that lane; for every k of a lane with
\* no earlier loss the k-th successful pop still returns f(v_k).
C18_SameLaneDisplaced ==
    /\ C18_Dropped
    /\ [](constructed =>
            \A k \in 1 .. Len(popped) :
                IF \E m \in lost_positions :
                      m <= k /\ m % num_threads = k % num_threads
                THEN /\ popped[k] # int_to_string(pushed[k])
                     /\ \E n \in (k + 1) .. Len(pushed) :
                           /\ n % num_threads = k % num_threads
                           /\ popped[k] = int_to_string(pushed[n])
                ELSE popped[k] = int_to_string(pushed[k]))

\* on two lanes the output of the third input was dropped, the third pop
\* has returned the output of the fifth input, and the fourth pop has
\* returned the output of the fourth
C18_Witness ==
    /\ num_threads = 2
    /\ lost_positions = {3}
    /\ lost = 1
    /\ Len(popped) = 4
    /\ popped[3] = int_to_string(pushed[5])
    /\ popped[4] = int_to_string(pushed[4])

\* ------------------------------------------------------------------- C19
\* C19: while the workers of a start or start_sleep call run and the
\* active flag stays true, with the workers and the popper scheduled
\* fairly, the k-th input pushed is eventually returned by the k-th
\* successful pop, converted, unless a worker's enqueue fails; and every
\* output in the output queue of a lane is the conversion of an input
\* that was pushed to that lane.
C19_EventuallyPopped ==
    /\ \A k \in 1 .. MaxPush :
          (phase = "ok" /\ nstarts = 1 /\ threads_active /\ Len(pushed) >= k)
             ~> \/ lost > 0
                \/ /\ Len(popped) >= k
                   /\ popped[k] = int_to_string(pushed[k])
    /\ [](constructed =>
            \A i \in Lanes, j \in 1 .. MaxPush :
                j <= Len(output_queues[i])
                   => \E n \in 1 .. Len(pushed) :
                         /\ (n - 1) % num_threads = i
                         /\ output_queues[i][j] = int_to_string(pushed[n]))

\* sleeping workers on two lanes have converted every input, some of
\* them pushed after start_sleep, and the popper has received them all
C19_Witness ==
    /\ phase = "ok"
    /\ mode = "sleep"
    /\ num_threads = 2
    /\ threads_active
    /\ lost = 0
    /\ Len(pushed) = MaxPush
    /\ Len(pushed) > pushed_at_start
    /\ Len(popped) = Len(pushed)
    /\ \A k \in 1 .. Len(popped) : popped[k] = int_to_string(pushed[k])

\* ------------------------------------------------------------------- C20
\* C20: pop looks at the output queue at the receive index and at no
\* other: it returns false exactly when that queue is empty, whatever
\* the other output queues hold, it leaves every other output queue as
\* it was, and what it returns is the head of that queue.
C20_PopOnlyCurrentLane ==
    [][pop
       => /\ pop_ret' = "false" <=> output_queues[cur_output_index] = << >>
          /\ pop_ret' = "true"
                => pop_out' = Head(output_queues[cur_output_index])
          /\ \A i \in Lanes :
                i # cur_output_index => output_queues'[i] = output_queues[i]]_vars

\* a pop has returned false at the empty output queue of its lane while
\* the other lane holds a finished output
C20_Witness ==
    /\ phase = "ok"
    /\ num_threads = 2
    /\ pop_ret = "false"
    /\ output_queues[cur_output_index] = << >>
    /\ output_size > 0

restart == stop_returned /\ (start \/ start_wait \/ start_sleep)

\* C22: the correspondence of push order and pop order survives stop /
\* start cycles: a start call that follows a stop leaves every queue as
\* the stop left it, and after such a restart, in whatever mode, the
\* k-th successful pop still returns f(v_k), for the inputs pushed
\* before, during and after the pause.
C22_OrderSurvivesRestart ==
    /\ [][restart => UNCHANGED <<input_queues, output_queues,
                                 cur_input_index, cur_output_index>>]_vars
    /\ []((phase = "ok" /\ nstarts >= 2)
            => /\ Len(popped) <= Len(pushed)
               /\ \A k \in 1 .. Len(popped) :
                     popped[k] = int_to_string(pushed[k]))
====
